---------------------------- MODULE Spec2Model ----------------------------
(***************************************************************************)
(* A model of addressBook.py: the AddressBook class (a list of contact     *)
(* dictionaries with add / edit / delete / search / count / sort), the     *)
(* text file address_books.txt written by save_all_books and read back by  *)
(* load_contacts and by main's start-up scan, and main's menu loop.        *)
(*                                                                         *)
(* A Python str is a sequence of one-character strings, so that strip,     *)
(* rstrip, startswith, endswith, split, lower and the ordering of strings  *)
(* are computed character by character as Python computes them.  The file  *)
(* is the text in it, character by character, newlines included.  A dict   *)
(* is a function whose domain is the set of its keys; a contact is a dict  *)
(* from field name to field value, both of them strs.                      *)
(***************************************************************************)
EXTENDS Integers, Sequences, FiniteSets, TLC

VARIABLES
    address_books,  \* main's dict name -> AddressBook, in insertion order:
                    \* a sequence of [name |-> str, contacts |-> list of dict]
    file,           \* address_books.txt: [exists |-> BOOLEAN, text |-> str]
    pc,             \* where the program is: "main", "book", "saving", "crashed"
    selected,       \* index in address_books of the book the book menu works on
    pending,        \* the write() calls an open save_all_books has still to make
    stream,         \* the file object of an open save_all_books: what it holds
                    \* of the text written and has not passed on to the disk
    failures,       \* how many calls of save_all_books have raised so far
    op              \* the last operation run, with its arguments and its result

vars == <<address_books, file, pc, selected, pending, stream, failures, op>>

---------------------------------------------------------------------------
(* Python str                                                              *)

\* The ASCII characters in code point order, from 0 to 127.  A control
\* character that cannot be written in a string here, and the grave accent
\* (code point 96), is held by a name that is no character.
Ascii ==
    <<"<0x00>", "<0x01>", "<0x02>", "<0x03>", "<0x04>", "<0x05>", "<0x06>",
      "<0x07>", "<0x08>", "\t", "\n", "<0x0b>", "\f", "\r", "<0x0e>", "<0x0f>",
      "<0x10>", "<0x11>", "<0x12>", "<0x13>", "<0x14>", "<0x15>", "<0x16>",
      "<0x17>", "<0x18>", "<0x19>", "<0x1a>", "<0x1b>", "<0x1c>", "<0x1d>",
      "<0x1e>", "<0x1f>",
      " ", "!", "\"", "#", "$", "%", "&", "'", "(", ")", "*", "+", ",", "-",
      ".", "/", "0", "1", "2", "3", "4", "5", "6", "7", "8", "9", ":", ";",
      "<", "=", ">", "?", "@", "A", "B", "C", "D", "E", "F", "G", "H", "I",
      "J", "K", "L", "M", "N", "O", "P", "Q", "R", "S", "T", "U", "V", "W",
      "X", "Y", "Z", "[", "\\", "]", "^", "_", "<grave>", "a", "b", "c", "d", "e",
      "f", "g", "h", "i", "j", "k", "l", "m", "n", "o", "p", "q", "r", "s",
      "t", "u", "v", "w", "x", "y", "z", "{", "|", "}", "~", "<0x7f>">>

\* ord(c)
OrdOf ==
    [c \in {Ascii[i] : i \in 1..Len(Ascii)} |->
        (CHOOSE i \in 1..Len(Ascii) : Ascii[i] = c) - 1]
Ord(c) == OrdOf[c]

\* c.lower(): "A".."Z" (code points 65..90) move 32 code points up
LowerChar(c) == IF Ord(c) >= 65 /\ Ord(c) <= 90 THEN Ascii[Ord(c) + 33] ELSE c

\* s.lower()
Lower(s) == [i \in 1..Len(s) |-> LowerChar(s[i])]

\* a < b on str: the first differing character decides, a proper prefix is less
RECURSIVE StrLessFrom(_, _, _)
StrLessFrom(a, b, i) ==
    IF i > Len(b) THEN FALSE
    ELSE IF i > Len(a) THEN TRUE
    ELSE IF a[i] # b[i] THEN Ord(a[i]) < Ord(b[i])
    ELSE StrLessFrom(a, b, i + 1)

StrLess(a, b) == StrLessFrom(a, b, 1)

\* a < b on tuples of str (the sort keys): the first differing component decides
RECURSIVE TupleLessFrom(_, _, _)
TupleLessFrom(a, b, i) ==
    IF i > Len(b) THEN FALSE
    ELSE IF i > Len(a) THEN TRUE
    ELSE IF a[i] # b[i] THEN StrLess(a[i], b[i])
    ELSE TupleLessFrom(a, b, i + 1)

TupleLess(a, b) == TupleLessFrom(a, b, 1)

\* s.startswith(p)
StartsWith(s, p) == Len(s) >= Len(p) /\ SubSeq(s, 1, Len(p)) = p

\* s.endswith(p)
EndsWith(s, p) == Len(s) >= Len(p) /\ SubSeq(s, Len(s) - Len(p) + 1, Len(s)) = p

\* s.rstrip(chars): every trailing character that is one of chars goes
RECURSIVE RStrip(_, _)
RStrip(s, chars) ==
    IF Len(s) > 0 /\ s[Len(s)] \in chars THEN RStrip(SubSeq(s, 1, Len(s) - 1), chars)
    ELSE s

\* s.lstrip(chars)
RECURSIVE LStrip(_, _)
LStrip(s, chars) ==
    IF Len(s) > 0 /\ s[1] \in chars THEN LStrip(Tail(s), chars) ELSE s

\* the characters str.strip() takes for whitespace: tab, line feed, vertical
\* tab, form feed, carriage return, the four separators 28..31 and the space
Whitespace == {Ascii[i + 1] : i \in (9..13) \cup (28..32)}

\* s.strip(): leading and trailing whitespace goes
Strip(s) == LStrip(RStrip(s, Whitespace), Whitespace)

\* ch in s
Contains(s, ch) == \E i \in 1..Len(s) : s[i] = ch

\* s.split(ch, 1), for a s that contains ch: the text before the first ch and after it
SplitOnce(s, ch) ==
    LET i == CHOOSE j \in 1..Len(s) : s[j] = ch /\ \A k \in 1..(j - 1) : s[k] # ch
    IN  <<SubSeq(s, 1, i - 1), SubSeq(s, i + 1, Len(s))>>

\* None, which is no str
None == <<"None", "None">>

\* bool(s) for s a str or None
Truthy(s) == s # None /\ s # <<>>

---------------------------------------------------------------------------
(* ContactPerson and the text of the file                                  *)

K_first_name   == <<"f","i","r","s","t","_","n","a","m","e">>
K_last_name    == <<"l","a","s","t","_","n","a","m","e">>
K_address      == <<"a","d","d","r","e","s","s">>
K_city         == <<"c","i","t","y">>
K_state        == <<"s","t","a","t","e">>
K_zip_code     == <<"z","i","p","_","c","o","d","e">>
K_phone_number == <<"p","h","o","n","e","_","n","u","m","b","e","r">>
K_email        == <<"e","m","a","i","l">>

\* ContactPerson.__init__: the details dict
ContactPerson(first_name, last_name, address, city, state, zip_code, phone_number, email) ==
    (K_first_name :> first_name) @@ (K_last_name :> last_name) @@
    (K_address :> address) @@ (K_city :> city) @@ (K_state :> state) @@
    (K_zip_code :> zip_code) @@ (K_phone_number :> phone_number) @@
    (K_email :> email)

\* {} and d[k] = v on a dict
EmptyDict == [k \in {} |-> <<>>]
DictSet(d, k, v) == [x \in (DOMAIN d) \cup {k} |-> IF x = k THEN v ELSE d[x]]

\* city_count.get(city, 0)
DictGet(d, k, default) == IF k \in DOMAIN d THEN d[k] ELSE default

\* d.update(e)
DictUpdate(d, e) ==
    [x \in (DOMAIN d) \cup (DOMAIN e) |-> IF x \in DOMAIN e THEN e[x] ELSE d[x]]

---------------------------------------------------------------------------
(* AddressBook: the operations on self.contacts                            *)

\* the identity test of add_contact, edit_contact and delete_contact
SameName(contact, first_name, last_name) ==
    contact[K_first_name] = first_name /\ contact[K_last_name] = last_name

\* Mutation of add_contact: a contact is a duplicate only when all its
\* fields are those of a contact of the book.
add_contact_WholeContact(contacts, contact) ==
    IF \E i \in 1..Len(contacts) : contacts[i] = contact
    THEN [contacts |-> contacts, result |-> "duplicate"]
    ELSE [contacts |-> Append(contacts, contact), result |-> "saved"]

\* AddressBook.add_contact: the new self.contacts and what was printed
add_contact(contacts, contact) ==
    IF \E i \in 1..Len(contacts) :
           contacts[i][K_first_name] = contact[K_first_name]
           /\ contacts[i][K_last_name] = contact[K_last_name]
    THEN [contacts |-> contacts, result |-> "duplicate"]
    ELSE [contacts |-> Append(contacts, contact), result |-> "saved"]

\* the first contact the for loop of edit_contact and delete_contact stops at
\* (0 when the loop runs to its end)
FirstMatch(contacts, first_name, last_name) ==
    IF \E i \in 1..Len(contacts) : SameName(contacts[i], first_name, last_name)
    THEN CHOOSE i \in 1..Len(contacts) :
             /\ SameName(contacts[i], first_name, last_name)
             /\ \A j \in 1..(i - 1) : ~SameName(contacts[j], first_name, last_name)
    ELSE 0

\* Mutation of edit_contact: new_details is applied as it comes, its names
\* are not overwritten with those the contact was looked up by.
edit_contact_TrustsDetails(contacts, first_name, last_name, new_details) ==
    LET i == FirstMatch(contacts, first_name, last_name)
    IN  IF i = 0
        THEN [contacts |-> contacts, result |-> FALSE]
        ELSE [contacts |-> [contacts EXCEPT ![i] = DictUpdate(@, new_details)],
              result |-> TRUE]

\* Mutation of edit_contact: every contact of that name is updated, not the
\* first alone.
edit_contact_AllMatches(contacts, first_name, last_name, new_details) ==
    LET details == DictSet(DictSet(new_details, K_first_name, first_name),
                           K_last_name, last_name)
    IN  [contacts |-> [i \in 1..Len(contacts) |->
                          IF SameName(contacts[i], first_name, last_name)
                          THEN DictUpdate(contacts[i], details)
                          ELSE contacts[i]],
         result |-> FirstMatch(contacts, first_name, last_name) # 0]

\* AddressBook.edit_contact: new_details gets the two names it was called with,
\* then updates the first matching contact in place
edit_contact(contacts, first_name, last_name, new_details) ==
    LET i == FirstMatch(contacts, first_name, last_name)
        details == DictSet(DictSet(new_details, K_first_name, first_name),
                           K_last_name, last_name)
    IN  IF i = 0
        THEN [contacts |-> contacts, result |-> FALSE]
        ELSE [contacts |-> [contacts EXCEPT ![i] = DictUpdate(@, details)],
              result |-> TRUE]

\* list.remove(x): the first element equal to x goes
ListRemove(list, x) ==
    LET j == CHOOSE k \in 1..Len(list) :
                 list[k] = x /\ \A m \in 1..(k - 1) : list[m] # x
    IN  SubSeq(list, 1, j - 1) \o SubSeq(list, j + 1, Len(list))

\* Mutation of delete_contact: every contact of that name goes.
delete_contact_AllMatches(contacts, first_name, last_name) ==
    LET Other(c) == ~SameName(c, first_name, last_name)
    IN  [contacts |-> SelectSeq(contacts, Other),
         result |-> FirstMatch(contacts, first_name, last_name) # 0]

\* AddressBook.delete_contact
delete_contact(contacts, first_name, last_name) ==
    LET i == FirstMatch(contacts, first_name, last_name)
    IN  IF i = 0
        THEN [contacts |-> contacts, result |-> FALSE]
        ELSE [contacts |-> ListRemove(contacts, contacts[i]), result |-> TRUE]

\* Mutation of SearchHit: the city is compared as it is written.
SearchHit_CaseSensitive(contact, city, state) ==
    \/ (Truthy(city) /\ contact[K_city] = city)
    \/ (Truthy(state) /\ contact[K_state] = state)

\* the condition of the loop of search_by_city_or_state: `and` and `or` short-circuit
SearchHit(contact, city, state) ==
    \/ (Truthy(city) /\ Lower(contact[K_city]) = Lower(city))
    \/ (Truthy(state) /\ Lower(contact[K_state]) = Lower(state))

\* AddressBook.search_by_city_or_state: the list returned
RECURSIVE search_by_city_or_state(_, _, _)
search_by_city_or_state(contacts, city, state) ==
    IF contacts = <<>> THEN <<>>
    ELSE LET n == Len(contacts)
             results == search_by_city_or_state(SubSeq(contacts, 1, n - 1), city, state)
         IN  IF SearchHit(contacts[n], city, state)
             THEN Append(results, contacts[n])
             ELSE results

\* Mutation of count_contacts_by_city: the cities are counted without regard
\* to case.
RECURSIVE count_contacts_by_city_Lower(_)
count_contacts_by_city_Lower(contacts) ==
    IF contacts = <<>> THEN EmptyDict
    ELSE LET n == Len(contacts)
             city_count == count_contacts_by_city_Lower(SubSeq(contacts, 1, n - 1))
             city == Lower(contacts[n][K_city])
         IN  DictSet(city_count, city, DictGet(city_count, city, 0) + 1)

\* AddressBook.count_contacts_by_city: the dict returned
RECURSIVE count_contacts_by_city(_)
count_contacts_by_city(contacts) ==
    IF contacts = <<>> THEN EmptyDict
    ELSE LET n == Len(contacts)
             city_count == count_contacts_by_city(SubSeq(contacts, 1, n - 1))
             city == contacts[n][K_city]
         IN  DictSet(city_count, city, DictGet(city_count, city, 0) + 1)

\* Mutation of StableOrder: element n goes before the elements of its own key.
RECURSIVE StableOrder_Unstable(_, _)
StableOrder_Unstable(keys, n) ==
    IF n = 0 THEN <<>>
    ELSE LET prev == StableOrder_Unstable(keys, n - 1)
             cnt  == Cardinality({i \in 1..Len(prev) : TupleLess(keys[prev[i]], keys[n])})
         IN  SubSeq(prev, 1, cnt) \o <<n>> \o SubSeq(prev, cnt + 1, Len(prev))

\* list.sort(key=...): a stable sort.  The order of the first n elements of a
\* list whose keys are `keys`, as the sequence of their indices: element n goes
\* behind every element whose key is not greater than its own.
RECURSIVE StableOrder(_, _)
StableOrder(keys, n) ==
    IF n = 0 THEN <<>>
    ELSE LET prev == StableOrder(keys, n - 1)
             cnt  == Cardinality({i \in 1..Len(prev) : ~TupleLess(keys[n], keys[prev[i]])})
         IN  SubSeq(prev, 1, cnt) \o <<n>> \o SubSeq(prev, cnt + 1, Len(prev))

ListSort(list, keys) ==
    LET order == StableOrder(keys, Len(list))
    IN  [i \in 1..Len(list) |-> list[order[i]]]

\* the key of sort_contacts_by_name: (x["first_name"], x["last_name"])
NameKey(x) == <<x[K_first_name], x[K_last_name]>>

\* the key of sort_contacts_by_city: x["city"]
CityKey(x) == <<x[K_city]>>

\* AddressBook.sort_contacts_by_name
sort_contacts_by_name(contacts) ==
    ListSort(contacts, [i \in 1..Len(contacts) |-> NameKey(contacts[i])])

\* AddressBook.sort_contacts_by_city
sort_contacts_by_city(contacts) ==
    ListSort(contacts, [i \in 1..Len(contacts) |-> CityKey(contacts[i])])

---------------------------------------------------------------------------
(* The file: save_all_books, load_contacts, main's start-up scan           *)

L_AddressBooks == <<"A","d","d","r","e","s","s","B","o","o","k","s">>
L_first_name_colon == K_first_name \o <<":">>

\* n times the character ch
Repeat(ch, n) == [i \in 1..n |-> ch]

\* the order in which save_all_books writes the fields of a contact
FieldOrder ==
    <<K_first_name, K_last_name, K_address, K_city, K_state, K_zip_code,
      K_phone_number, K_email>>

\* f"{key}: {contact[key]},\n", and without the comma for the last field
FieldLine(contact, i) ==
    FieldOrder[i] \o <<":", " ">> \o contact[FieldOrder[i]]
        \o (IF i < Len(FieldOrder) THEN <<",">> ELSE <<>>) \o <<"\n">>

\* The texts one contact makes save_all_books write: the 32 dashes and the
\* fields up to the first one the contact lacks (contact[key] then raises
\* KeyError and the save stops there).
ContactWrites(contact) ==
    LET have == {i \in 1..Len(FieldOrder) :
                     \A j \in 1..i : FieldOrder[j] \in DOMAIN contact}
    IN  [writes |-> <<Repeat("-", 32) \o <<"\n">>>>
                        \o [i \in 1..Cardinality(have) |-> FieldLine(contact, i)],
         ok     |-> Cardinality(have) = Len(FieldOrder)]

RECURSIVE ContactsWrites(_)
ContactsWrites(contacts) ==
    IF contacts = <<>> THEN [writes |-> <<>>, ok |-> TRUE]
    ELSE LET first == ContactWrites(Head(contacts))
             rest  == ContactsWrites(Tail(contacts))
         IN  IF first.ok
             THEN [writes |-> first.writes \o rest.writes, ok |-> rest.ok]
             ELSE first

\* the texts of one book: its name, its contacts, the 34 dashes
RECURSIVE BooksWrites(_)
BooksWrites(books) ==
    IF books = <<>> THEN [writes |-> <<>>, ok |-> TRUE]
    ELSE LET cs   == ContactsWrites(Head(books).contacts)
             rest == BooksWrites(Tail(books))
             name == <<Head(books).name \o <<":", "\n">>>>
         IN  IF cs.ok
             THEN [writes |-> name \o cs.writes \o <<Repeat("-", 34) \o <<"\n">>>>
                                 \o rest.writes,
                   ok |-> rest.ok]
             ELSE [writes |-> name \o cs.writes, ok |-> FALSE]

\* AddressBook.save_all_books: the texts of the file.write() calls it makes,
\* in their order, and whether it gets through them all
save_all_books(books) ==
    LET w == BooksWrites(books)
    IN  [writes |-> <<L_AddressBooks \o <<":", "\n">>, Repeat("_", 25) \o <<"\n">>>>
                        \o w.writes,
         ok     |-> w.ok]

\* the texts lo..hi of a list of texts, one behind the other
RECURSIVE JoinRange(_, _, _)
JoinRange(texts, lo, hi) ==
    IF lo > hi THEN <<>>
    ELSE IF lo = hi THEN texts[lo]
    ELSE LET mid == (lo + hi) \div 2
         IN  JoinRange(texts, lo, mid) \o JoinRange(texts, mid + 1, hi)

\* what the file holds when all of these texts have been written to it
Join(texts) == JoinRange(texts, 1, Len(texts))

\* `for line in file`: the lines of the text of the file, each with the "\n"
\* that ends it; the last one without, when the text does not end in one.
\* A line ends at "\n", at "\r\n" and at "\r": open(..., 'r') reads all three
\* as "\n".
ReadLines(text) ==
    LET IsEnd(i)  == \/ text[i] = "\n"
                     \/ text[i] = "\r" /\ (i = Len(text) \/ text[i + 1] # "\n")
        ends      == SelectSeq([i \in 1..Len(text) |-> i], IsEnd)
        Start(k)  == IF k = 1 THEN 1 ELSE ends[k - 1] + 1
        Before(e) == IF text[e] = "\n" /\ e > 1 /\ text[e - 1] = "\r" THEN e - 2 ELSE e - 1
        whole     == [k \in 1..Len(ends) |->
                         SubSeq(text, Start(k), Before(ends[k])) \o <<"\n">>]
        last      == IF ends = <<>> THEN 0 ELSE ends[Len(ends)]
    IN  IF last < Len(text)
        THEN Append(whole, SubSeq(text, last + 1, Len(text)))
        ELSE whole

---------------------------------------------------------------------------
(* The file object of open(CONTACTS_FILE, 'w'): a text layer that collects *)
(* the texts written, over a buffer, over the file on the disk.  w.text is *)
(* what the text layer holds, w.binary what the buffer holds, w.disk the   *)
(* text of the file, w.limit how long the disk lets the file become, and   *)
(* w.ok turns FALSE when a write to the disk raises.                       *)

ChunkSize  == 8192   \* the text layer passes on what it holds from this size on
BufferSize == 4096   \* the size of the buffer: the block size of the file

NoLimit == [on |-> FALSE, size |-> 0]
Limit(n) == [on |-> TRUE, size |-> n]

\* no file is open
NoStream == [text |-> <<>>, binary |-> <<>>, limit |-> NoLimit]

\* the disk takes n more characters
Fits(w, n) == ~w.limit.on \/ Len(w.disk) + n <= w.limit.size

\* how many characters the disk still takes, under a limit
Avail(w) == w.limit.size - Len(w.disk)

\* The buffer is written out: all of it, or, under a limit, what the disk
\* takes, and the next write to the disk raises.
BufferedFlush(w) ==
    IF w.binary = <<>> THEN w
    ELSE IF Fits(w, Len(w.binary))
    THEN [w EXCEPT !.disk = @ \o w.binary, !.binary = <<>>]
    ELSE [w EXCEPT !.disk = @ \o SubSeq(w.binary, 1, Avail(w)),
                   !.binary = SubSeq(w.binary, Avail(w) + 1, Len(w.binary)),
                   !.ok = FALSE]

\* The buffer is given data: it keeps them if it has the room; otherwise it
\* is written out first, and data longer than the buffer go to the disk until
\* what is left of them fits the buffer.
BufferedWrite(w, data) ==
    IF Len(data) <= BufferSize - Len(w.binary)
    THEN [w EXCEPT !.binary = @ \o data]
    ELSE LET f == BufferedFlush(w)
         IN  IF ~f.ok THEN f
             ELSE IF Len(data) <= BufferSize THEN [f EXCEPT !.binary = data]
             ELSE IF Fits(f, Len(data)) THEN [f EXCEPT !.disk = @ \o data]
             ELSE LET rest == SubSeq(data, Avail(f) + 1, Len(data))
                  IN  [f EXCEPT !.disk = @ \o SubSeq(data, 1, Avail(f)),
                                !.binary = rest,
                                !.ok = Avail(f) > 0 /\ Len(rest) <= BufferSize]

\* file.write(s): what the text layer holds is passed on first if s would
\* take it beyond ChunkSize, and with s if that reaches ChunkSize
FileWrite(w, s) ==
    LET w1 == IF Len(w.text) + Len(s) > ChunkSize /\ w.text # <<>>
              THEN BufferedWrite([w EXCEPT !.text = <<>>], w.text)
              ELSE w
    IN  IF ~w1.ok THEN w1
        ELSE IF Len(w1.text) + Len(s) >= ChunkSize
        THEN BufferedWrite([w1 EXCEPT !.text = <<>>], w1.text \o s)
        ELSE [w1 EXCEPT !.text = @ \o s]

\* file.close(), which leaving the with block calls: the text layer passes
\* on what it holds and the buffer is written out
FileClose(w) ==
    LET w1 == IF w.text # <<>>
              THEN BufferedWrite([w EXCEPT !.text = <<>>], w.text)
              ELSE w
    IN  IF ~w1.ok THEN w1 ELSE BufferedFlush(w1)

\* open(CONTACTS_FILE, 'w'): the file is there and empty
FileOpen(limit) ==
    [text |-> <<>>, binary |-> <<>>, disk |-> <<>>, limit |-> limit, ok |-> TRUE]

---------------------------------------------------------------------------
(* Reading the file: load_contacts and main's start-up scan                *)

\* a line that names a book, for load_contacts and for main alike
IsBookLine(line) == EndsWith(line, <<":">>) /\ ~StartsWith(line, L_first_name_colon)

\* one turn of the loop of load_contacts over the lines of the file
LoadLine(name, st, raw) ==
    LET line == Strip(raw)
    IN  IF IsBookLine(line)
        THEN [st EXCEPT !.current_book = RStrip(line, {":"})]
        ELSE IF st.current_book # name THEN st
        ELSE LET st1 == IF StartsWith(line, L_first_name_colon)
                        THEN [st EXCEPT
                                 !.contacts = IF DOMAIN st.current_contact # {}
                                              THEN Append(@, st.current_contact)
                                              ELSE @,
                                 !.current_contact = EmptyDict]
                        ELSE st
             IN  IF Contains(line, ":")
                 THEN LET kv    == SplitOnce(line, ":")
                          key   == Strip(kv[1])
                          value == RStrip(Strip(kv[2]), {","})
                      IN  [st1 EXCEPT !.current_contact = DictSet(@, key, value)]
                 ELSE st1

\* the loop of load_contacts over the lines lo..hi of the file, entered with
\* its variables as in st: the turns for the first half of the lines, then
\* the turns for the rest.  The loop never shortens self.contacts, so the
\* test on half is always true; it has the first half evaluated before the
\* second half is entered.
RECURSIVE LoadLines(_, _, _, _, _)
LoadLines(name, lines, st, lo, hi) ==
    IF lo > hi THEN st
    ELSE IF lo = hi THEN LoadLine(name, st, lines[lo])
    ELSE LET mid  == (lo + hi) \div 2
             half == LoadLines(name, lines, st, lo, mid)
         IN  IF Len(half.contacts) >= Len(st.contacts)
             THEN LoadLines(name, lines, half, mid + 1, hi)
             ELSE half

\* AddressBook.load_contacts: self.contacts of the book called name
load_contacts(f, name) ==
    IF ~f.exists THEN <<>>
    ELSE LET lines == ReadLines(f.text)
             st == LoadLines(name, lines,
                             [current_book |-> <<>>, current_contact |-> EmptyDict,
                              contacts |-> <<>>],
                             1, Len(lines))
         IN  IF DOMAIN st.current_contact # {} /\ st.current_book = name
             THEN Append(st.contacts, st.current_contact)
             ELSE st.contacts

\* AddressBook.__init__
AddressBook(f, name) == [name |-> name, contacts |-> load_contacts(f, name)]

\* book_name in address_books
HasBook(books, name) == \E i \in 1..Len(books) : books[i].name = name

\* one turn of the loop of main over the lines of the file: a book line whose
\* name is not "AddressBooks" and not yet a key makes a new key.  names are
\* the keys of address_books in the order they were inserted.
ScanLine(names, raw) ==
    LET line == Strip(raw)
        current_book == RStrip(line, {":"})
    IN  IF IsBookLine(line) /\ current_book # L_AddressBooks
           /\ \A i \in 1..Len(names) : names[i] # current_book
        THEN Append(names, current_book)
        ELSE names

\* the loop of main over the lines lo..hi of the file, entered with the keys
\* names: the turns for the first half of the lines, then the turns for the
\* rest.  The loop never removes a key, so the test on half is always true;
\* it has the first half evaluated before the second half is entered.
RECURSIVE ScanLines(_, _, _, _)
ScanLines(lines, names, lo, hi) ==
    IF lo > hi THEN names
    ELSE IF lo = hi THEN ScanLine(names, lines[lo])
    ELSE LET mid  == (lo + hi) \div 2
             half == ScanLines(lines, names, lo, mid)
         IN  IF Len(half) >= Len(names)
             THEN ScanLines(lines, half, mid + 1, hi)
             ELSE half

\* main, up to its menu loop: address_books as loaded from the file, each new
\* key with the AddressBook constructed for it (which reads the same file)
LoadAddressBooks(f) ==
    IF ~f.exists THEN <<>>
    ELSE LET lines == ReadLines(f.text)
             names == ScanLines(lines, <<>>, 1, Len(lines))
         IN  [i \in 1..Len(names) |-> AddressBook(f, names[i])]

---------------------------------------------------------------------------
(* The inputs the operations are run on                                    *)

MaxContacts == 3    \* add_contact is not called on a book that has this many

S_a == <<"a">>
S_A == <<"A">>
S_b == <<"b">>
S_x == <<"x">>
S_LA == <<"L","A">>
S_la == <<"l","a">>
S_NY == <<"N","Y">>
S_ny == <<"n","y">>
S_addr == <<"1"," ","S","t">>
S_zip == <<"7">>
S_phone == <<"5">>
S_mail == <<"e","@","x">>
N_Friends == <<"F","r","i","e","n","d","s">>
N_Work == <<"W","o","r","k">>

FirstNames == {S_a, S_A, S_b}
LastNames  == {S_x}

\* the city and the state of a contact as typed: two cities that differ in
\* case only, and a state that reads like a city
Places == {<<S_LA, S_NY>>, <<S_la, S_LA>>, <<S_NY, S_LA>>}

\* what the prompts of main's "Add Contact" can be answered with
Contacts ==
    {ContactPerson(f, l, S_addr, p[1], p[2], S_zip, S_phone, S_mail) :
        f \in FirstNames, l \in LastNames, p \in Places}

\* new_details of edit_contact: one field; a dict that carries other names;
\* the six fields main's "Edit Contact" asks for
NewDetails ==
    { (K_city :> S_NY),
      (K_first_name :> S_b) @@ (K_last_name :> S_a) @@ (K_city :> S_la) @@ (K_state :> S_LA),
      (K_address :> S_addr) @@ (K_city :> S_LA) @@ (K_state :> S_NY) @@
          (K_zip_code :> S_zip) @@ (K_phone_number :> S_phone) @@ (K_email :> S_mail) }

\* the filters of search_by_city_or_state: not given, left blank, or a name
CityFilters  == {None, <<>>, S_la}
StateFilters == {None, <<>>, S_ny}

\* address_books.txt: absent, or there with a text in it
NoFile == [exists |-> FALSE, text |-> <<>>]
FileOf(text) == [exists |-> TRUE, text |-> text]

\* A file an earlier run has left: one book whose two contacts differ in the
\* first name as typed ("a," and "a") and are read back with the same name.
TwinsFile ==
    FileOf(Join(save_all_books(
        << [name |-> N_Friends,
            contacts |-> << ContactPerson(<<"a", ",">>, S_x, S_addr, S_NY, S_LA,
                                          S_zip, S_phone, S_mail),
                            ContactPerson(S_a, S_x, S_addr, S_LA, S_NY,
                                          S_zip, S_phone, S_mail) >>] >>).writes))

---------------------------------------------------------------------------
(* One AddressBook object and the calls of its methods                     *)

\* self.contacts of the book the menu works on
Book == address_books[selected].contacts

SetBook(contacts) == [address_books EXCEPT ![selected].contacts = contacts]

\* AddressBook(name): the file is absent, or is the one an earlier run left
StoreInit ==
    /\ file \in {NoFile, TwinsFile}
    /\ address_books = <<AddressBook(file, N_Friends)>>
    /\ selected = 1
    /\ pc = "book"
    /\ pending = <<>>
    /\ stream = NoStream
    /\ failures = 0
    /\ op = [name |-> "__init__", loaded |-> address_books[1].contacts]

CallAdd(contact) ==
    /\ Len(Book) < MaxContacts
    /\ LET r == add_contact(Book, contact)
       IN  /\ address_books' = SetBook(r.contacts)
           /\ op' = [name |-> "add_contact", contact |-> contact, result |-> r.result]
    /\ UNCHANGED <<file, pc, selected, pending, stream, failures>>

CallEdit(first_name, last_name, new_details) ==
    /\ LET r == edit_contact(Book, first_name, last_name, new_details)
       IN  /\ address_books' = SetBook(r.contacts)
           /\ op' = [name |-> "edit_contact", first_name |-> first_name,
                     last_name |-> last_name, new_details |-> new_details,
                     result |-> r.result]
    /\ UNCHANGED <<file, pc, selected, pending, stream, failures>>

CallDelete(first_name, last_name) ==
    /\ LET r == delete_contact(Book, first_name, last_name)
       IN  /\ address_books' = SetBook(r.contacts)
           /\ op' = [name |-> "delete_contact", first_name |-> first_name,
                     last_name |-> last_name, result |-> r.result]
    /\ UNCHANGED <<file, pc, selected, pending, stream, failures>>

CallSearch(city, state) ==
    /\ op' = [name |-> "search_by_city_or_state", city |-> city, state |-> state,
              result |-> search_by_city_or_state(Book, city, state)]
    /\ UNCHANGED <<address_books, file, pc, selected, pending, stream, failures>>

CallCount ==
    /\ op' = [name |-> "count_contacts_by_city", result |-> count_contacts_by_city(Book)]
    /\ UNCHANGED <<address_books, file, pc, selected, pending, stream, failures>>

CallSortByName ==
    /\ address_books' = SetBook(sort_contacts_by_name(Book))
    /\ op' = [name |-> "sort_contacts_by_name"]
    /\ UNCHANGED <<file, pc, selected, pending, stream, failures>>

CallSortByCity ==
    /\ address_books' = SetBook(sort_contacts_by_city(Book))
    /\ op' = [name |-> "sort_contacts_by_city"]
    /\ UNCHANGED <<file, pc, selected, pending, stream, failures>>

\* book.load_contacts(): the list is emptied and the file read again
CallLoad ==
    /\ address_books' = SetBook(load_contacts(file, address_books[selected].name))
    /\ op' = [name |-> "load_contacts"]
    /\ UNCHANGED <<file, pc, selected, pending, stream, failures>>

StoreNext ==
    \/ \E c \in Contacts : CallAdd(c)
    \/ \E f \in FirstNames, l \in LastNames, d \in NewDetails : CallEdit(f, l, d)
    \/ \E f \in FirstNames, l \in LastNames : CallDelete(f, l)
    \/ \E c \in CityFilters, s \in StateFilters : CallSearch(c, s)
    \/ CallCount
    \/ CallSortByName
    \/ CallSortByCity
    \/ CallLoad

\* the methods of one AddressBook, called in any order
SpecStore == StoreInit /\ [][StoreNext]_vars

---------------------------------------------------------------------------
(* What is claimed of one AddressBook                                      *)

\* the positions of the contacts of a list that carry a name
Matches(contacts, first_name, last_name) ==
    {i \in 1..Len(contacts) : SameName(contacts[i], first_name, last_name)}

Min(S) == CHOOSE m \in S : \A n \in S : m <= n

\* the list without its element at position m
Without(contacts, m) ==
    [j \in 1..(Len(contacts) - 1) |-> IF j < m THEN contacts[j] ELSE contacts[j + 1]]

\* C1: in a book that was constructed empty, whatever add_contact,
\* edit_contact, delete_contact and the two sorts have done since, no two
\* contacts carry the same (first_name, last_name)
C1_UniqueNames ==
    ~file.exists =>
        \A i, j \in 1..Len(Book) :
            i # j => ~(/\ Book[i][K_first_name] = Book[j][K_first_name]
                       /\ Book[i][K_last_name] = Book[j][K_last_name])

\* a book constructed empty that holds several contacts, one of them just
\* edited with details that carry the name of another
C1_Witness ==
    /\ ~file.exists
    /\ Len(Book) >= 2
    /\ op.name = "edit_contact" /\ op.result
    /\ K_first_name \in DOMAIN op.new_details
    /\ \E i \in 1..Len(Book) : Book[i][K_first_name] = op.new_details[K_first_name]

\* C5: add_contact of a contact whose two names are those of a contact of the
\* book is rejected and leaves the list as it is, whatever its other fields;
\* any other contact is appended behind the unchanged list
C5_AddContact ==
    [][op'.name = "add_contact" =>
          IF Matches(Book, op'.contact[K_first_name], op'.contact[K_last_name]) # {}
          THEN Book' = Book /\ op'.result = "duplicate"
          ELSE Book' = Book \o <<op'.contact>> /\ op'.result = "saved"]_vars

\* an add that was rejected although no contact of the book equals the new one
C5_Witness ==
    /\ op.name = "add_contact" /\ op.result = "duplicate"
    /\ Len(Book) >= 2
    /\ \A i \in 1..Len(Book) : Book[i] # op.contact

\* C6: delete_contact of a name no contact carries returns False and leaves
\* the list as it is; otherwise it returns True and the list loses the first
\* contact that carries the name, and nothing else
C6_DeleteContact ==
    [][op'.name = "delete_contact" =>
          LET m == Matches(Book, op'.first_name, op'.last_name)
          IN  IF m = {}
              THEN ~op'.result /\ Book' = Book
              ELSE /\ op'.result
                   /\ Len(Book') = Len(Book) - 1
                   /\ Book' = Without(Book, Min(m))]_vars

\* a delete that took the first of two contacts of the same name: the other is
\* still there
C6_Witness ==
    /\ op.name = "delete_contact" /\ op.result
    /\ Len(Book) >= 2
    /\ Matches(Book, op.first_name, op.last_name) # {}

\* a == b without regard to case
SameIgnoringCase(a, b) == Lower(a) = Lower(b)

\* C7: with a city and no state, search_by_city_or_state returns the contacts
\* whose city is that city without regard to case, in the order of the book,
\* and no other; with both, those whose city or whose state matches; with
\* neither (None or ""), nothing. The book is left as it is.
C7_Search ==
    [][op'.name = "search_by_city_or_state" =>
          LET city  == op'.city
              state == op'.state
              CityOnly(c) == SameIgnoringCase(c[K_city], city)
              Either(c)   == \/ SameIgnoringCase(c[K_city], city)
                             \/ SameIgnoringCase(c[K_state], state)
          IN  /\ Book' = Book
              /\ (Truthy(city) /\ ~Truthy(state)) => op'.result = SelectSeq(Book, CityOnly)
              /\ (Truthy(city) /\ Truthy(state)) => op'.result = SelectSeq(Book, Either)
              /\ (~Truthy(city) /\ ~Truthy(state)) => op'.result = <<>>]_vars

\* a search by city alone that found a contact whose city is written in
\* another case, and left out one whose state reads like the city
C7_Witness ==
    /\ op.name = "search_by_city_or_state"
    /\ Truthy(op.city) /\ op.state = None
    /\ \E i \in 1..Len(op.result) : op.result[i][K_city] # op.city
    /\ \E i \in 1..Len(Book) :
           /\ SameIgnoringCase(Book[i][K_state], op.city)
           /\ \A j \in 1..Len(op.result) : op.result[j] # Book[i]

\* how often x occurs in a list
Occurrences(list, x) == Cardinality({i \in 1..Len(list) : list[i] = x})

\* what the claim says of a sort by Key: the same contacts; no contact before
\* one of a smaller key; the contacts of one key in the order they had; and a
\* second sort changes nothing
SortedBy(before, after, again, Key(_)) ==
    /\ Len(after) = Len(before)
    /\ \A i \in 1..Len(before) :
           Occurrences(after, before[i]) = Occurrences(before, before[i])
    /\ \A i, j \in 1..Len(after) : i < j => ~TupleLess(Key(after[j]), Key(after[i]))
    /\ \A i \in 1..Len(before) :
           LET SameKey(c) == Key(c) = Key(before[i])
           IN  SelectSeq(after, SameKey) = SelectSeq(before, SameKey)
    /\ again = after

\* C8: sort_contacts_by_name leaves a permutation of the contacts, ascending by
\* (first_name, last_name), contacts of equal names in their former order, and
\* sorting again changes nothing; so does sort_contacts_by_city, by city
C8_Sort ==
    [][/\ op'.name = "sort_contacts_by_name" =>
              SortedBy(Book, Book', sort_contacts_by_name(Book'), NameKey)
       /\ op'.name = "sort_contacts_by_city" =>
              SortedBy(Book, Book', sort_contacts_by_city(Book'), CityKey)]_vars

\* a book just sorted by name: three contacts, two of them of one name, which
\* stand in the order opposite to that of their cities
C8_Witness ==
    /\ op.name = "sort_contacts_by_name"
    /\ Len(Book) = 3
    /\ \E i, j \in 1..Len(Book) :
           /\ i < j
           /\ NameKey(Book[i]) = NameKey(Book[j])
           /\ StrLess(Book[j][K_city], Book[i][K_city])
    /\ \E i \in 1..Len(Book) : Book[i][K_first_name] # Book[1][K_first_name]

\* C9: edit_contact of a name some contact carries returns True and changes
\* the first such contact only: the fields new_details holds get its values,
\* but the two names stay; the other fields, the position and every other
\* contact stay. Of a name no contact carries it returns False and changes
\* nothing.
C9_EditContact ==
    [][op'.name = "edit_contact" =>
          LET m == Matches(Book, op'.first_name, op'.last_name)
              d == op'.new_details
          IN  IF m = {}
              THEN ~op'.result /\ Book' = Book
              ELSE /\ op'.result
                   /\ Len(Book') = Len(Book)
                   /\ \A j \in 1..Len(Book) : j # Min(m) => Book'[j] = Book[j]
                   /\ DOMAIN Book'[Min(m)] = DOMAIN Book[Min(m)]
                   /\ \A k \in DOMAIN Book[Min(m)] :
                          Book'[Min(m)][k] =
                              IF k \in {K_first_name, K_last_name} THEN Book[Min(m)][k]
                              ELSE IF k \in DOMAIN d THEN d[k]
                              ELSE Book[Min(m)][k]]_vars

\* an edit, with details that carry other names, of the first of two contacts
\* of one name, which changed that contact
C9_Witness ==
    /\ op.name = "edit_contact" /\ op.result
    /\ K_first_name \in DOMAIN op.new_details
    /\ op.new_details[K_first_name] # op.first_name
    /\ Cardinality(Matches(Book, op.first_name, op.last_name)) = 2
    /\ LET m == Matches(Book, op.first_name, op.last_name)
       IN  /\ Book[Min(m)][K_city] = op.new_details[K_city]
           /\ \E i \in m : Book[i][K_city] # op.new_details[K_city]

RECURSIVE SumOf(_, _)
SumOf(f, S) ==
    IF S = {} THEN 0
    ELSE LET x == CHOOSE y \in S : TRUE IN f[x] + SumOf(f, S \ {x})

\* C10: count_contacts_by_city returns a dict whose keys are the cities of the
\* book as written (two spellings are two keys), each with the number of
\* contacts of exactly that city; the numbers add up to the length of the
\* book, which is left as it is
C10_CountByCity ==
    [][op'.name = "count_contacts_by_city" =>
          /\ Book' = Book
          /\ DOMAIN op'.result = {Book[i][K_city] : i \in 1..Len(Book)}
          /\ \A city \in DOMAIN op'.result :
                 op'.result[city] =
                     Cardinality({i \in 1..Len(Book) : Book[i][K_city] = city})
          /\ SumOf(op'.result, DOMAIN op'.result) = Len(Book)]_vars

\* a count over three contacts, two of them in cities that differ in case only
C10_Witness ==
    /\ op.name = "count_contacts_by_city"
    /\ Len(Book) = 3
    /\ \E c, d \in DOMAIN op.result : c # d /\ Lower(c) = Lower(d)
    /\ \E c \in DOMAIN op.result : op.result[c] = 2

---------------------------------------------------------------------------
(* main: the menus, every command with the save that follows it            *)

MaxBooks == 2       \* no new address book is created beyond this many
MaxFailures == 1    \* open() raises at most this often

BookNames == {N_Friends, N_Work}

\* the contacts typed in at main's "Add Contact"
MainContacts ==
    { ContactPerson(S_a, S_x, S_addr, S_LA, S_NY, S_zip, S_phone, S_mail),
      ContactPerson(S_b, S_x, S_addr, S_NY, S_LA, S_zip, S_phone, S_mail) }

\* new_details as main's "Edit Contact" builds it: the six fields asked for
MainNewDetails ==
    { (K_address :> S_addr) @@ (K_city :> S_NY) @@ (K_state :> S_LA) @@
      (K_zip_code :> S_zip) @@ (K_phone_number :> S_phone) @@ (K_email :> S_mail) }

\* address_books[book_name], as a position in the order of insertion
IndexOf(books, name) == CHOOSE i \in 1..Len(books) : books[i].name = name

\* Mutation of Saved: only the book the menu works on is written.
Saved_OnlySelectedBook(books, open_fails) ==
    IF open_fails
    THEN [file |-> file, save |-> "failed"]
    ELSE LET w == save_all_books(IF selected \in 1..Len(books)
                                 THEN <<books[selected]>> ELSE <<>>)
         IN  [file |-> FileOf(Join(w.writes)), save |-> IF w.ok THEN "ok" ELSE "failed"]

\* AddressBook.save_all_books as a whole: the file it leaves and whether it
\* got through. open() may raise (the file is left as it was); a contact
\* without one of the fields raises KeyError after the lines before it.
Saved(books, open_fails) ==
    IF open_fails
    THEN [file |-> file, save |-> "failed"]
    ELSE LET w == save_all_books(books)
         IN  [file |-> FileOf(Join(w.writes)), save |-> IF w.ok THEN "ok" ELSE "failed"]

\* the program is started and no file is there
MainInit ==
    /\ file = NoFile
    /\ address_books = LoadAddressBooks(file)
    /\ selected = 0
    /\ pc = "main"
    /\ pending = <<>>
    /\ stream = NoStream
    /\ failures = 0
    /\ op = [name |-> "start", save |-> "none"]

\* main menu 1: create or select an address book, and enter its menu
SelectBook(book_name) ==
    /\ pc = "main"
    /\ HasBook(address_books, book_name) \/ Len(address_books) < MaxBooks
    /\ address_books' = IF HasBook(address_books, book_name) THEN address_books
                        ELSE Append(address_books, AddressBook(file, book_name))
    /\ selected' = IndexOf(address_books', book_name)
    /\ pc' = "book"
    /\ op' = [name |-> "select", book_name |-> book_name, save |-> "none"]
    /\ UNCHANGED <<file, pending, stream, failures>>

\* book menu 7
GoBack ==
    /\ pc = "book"
    /\ pc' = "main"
    /\ op' = [name |-> "back", save |-> "none"]
    /\ UNCHANGED <<address_books, file, selected, pending, stream, failures>>

\* book menu 1, for one contact: add_contact, then save_all_books
CmdAdd(contact, open_fails) ==
    /\ pc = "book"
    /\ Len(Book) < MaxContacts
    /\ open_fails => failures < MaxFailures
    /\ LET r == add_contact(Book, contact)
           w == Saved(SetBook(r.contacts), open_fails)
       IN  /\ address_books' = SetBook(r.contacts)
           /\ file' = w.file
           /\ op' = [name |-> "add_contact", contact |-> contact, result |-> r.result,
                     save |-> w.save]
    /\ failures' = failures + (IF op'.save = "failed" THEN 1 ELSE 0)
    /\ UNCHANGED <<pc, selected, pending, stream>>

\* book menu 3: save_all_books only when edit_contact returned True
CmdEdit(first_name, last_name, new_details, open_fails) ==
    /\ pc = "book"
    /\ open_fails => failures < MaxFailures
    /\ LET r == edit_contact(Book, first_name, last_name, new_details)
           w == IF r.result THEN Saved(SetBook(r.contacts), open_fails)
                ELSE [file |-> file, save |-> "none"]
       IN  /\ address_books' = SetBook(r.contacts)
           /\ file' = w.file
           /\ op' = [name |-> "edit_contact", first_name |-> first_name,
                     last_name |-> last_name, new_details |-> new_details,
                     result |-> r.result, save |-> w.save]
    /\ failures' = failures + (IF op'.save = "failed" THEN 1 ELSE 0)
    /\ UNCHANGED <<pc, selected, pending, stream>>

\* book menu 4: save_all_books only when delete_contact returned True
CmdDelete(first_name, last_name, open_fails) ==
    /\ pc = "book"
    /\ open_fails => failures < MaxFailures
    /\ LET r == delete_contact(Book, first_name, last_name)
           w == IF r.result THEN Saved(SetBook(r.contacts), open_fails)
                ELSE [file |-> file, save |-> "none"]
       IN  /\ address_books' = SetBook(r.contacts)
           /\ file' = w.file
           /\ op' = [name |-> "delete_contact", first_name |-> first_name,
                     last_name |-> last_name, result |-> r.result, save |-> w.save]
    /\ failures' = failures + (IF op'.save = "failed" THEN 1 ELSE 0)
    /\ UNCHANGED <<pc, selected, pending, stream>>

\* book menu 5
CmdSortByName(open_fails) ==
    /\ pc = "book"
    /\ open_fails => failures < MaxFailures
    /\ LET books == SetBook(sort_contacts_by_name(Book))
           w == Saved(books, open_fails)
       IN  /\ address_books' = books
           /\ file' = w.file
           /\ op' = [name |-> "sort_contacts_by_name", save |-> w.save]
    /\ failures' = failures + (IF op'.save = "failed" THEN 1 ELSE 0)
    /\ UNCHANGED <<pc, selected, pending, stream>>

\* book menu 6
CmdSortByCity(open_fails) ==
    /\ pc = "book"
    /\ open_fails => failures < MaxFailures
    /\ LET books == SetBook(sort_contacts_by_city(Book))
           w == Saved(books, open_fails)
       IN  /\ address_books' = books
           /\ file' = w.file
           /\ op' = [name |-> "sort_contacts_by_city", save |-> w.save]
    /\ failures' = failures + (IF op'.save = "failed" THEN 1 ELSE 0)
    /\ UNCHANGED <<pc, selected, pending, stream>>

\* main menu 5: every book sorted by name, then one save
CmdSortAllByName(open_fails) ==
    /\ pc = "main"
    /\ open_fails => failures < MaxFailures
    /\ LET books == [i \in 1..Len(address_books) |->
                        [address_books[i] EXCEPT
                            !.contacts = sort_contacts_by_name(@)]]
           w == Saved(books, open_fails)
       IN  /\ address_books' = books
           /\ file' = w.file
           /\ op' = [name |-> "sort_all_by_name", save |-> w.save]
    /\ failures' = failures + (IF op'.save = "failed" THEN 1 ELSE 0)
    /\ UNCHANGED <<pc, selected, pending, stream>>

\* main menu 6: every book sorted by city, then one save
CmdSortAllByCity(open_fails) ==
    /\ pc = "main"
    /\ open_fails => failures < MaxFailures
    /\ LET books == [i \in 1..Len(address_books) |->
                        [address_books[i] EXCEPT
                            !.contacts = sort_contacts_by_city(@)]]
           w == Saved(books, open_fails)
       IN  /\ address_books' = books
           /\ file' = w.file
           /\ op' = [name |-> "sort_all_by_city", save |-> w.save]
    /\ failures' = failures + (IF op'.save = "failed" THEN 1 ELSE 0)
    /\ UNCHANGED <<pc, selected, pending, stream>>

\* main menu 7, and the program started again: address_books is what the
\* start of main reads from the file
Restart ==
    /\ pc = "main"
    /\ address_books' = LoadAddressBooks(file)
    /\ selected' = 0
    /\ op' = [name |-> "restart", save |-> "none"]
    /\ UNCHANGED <<file, pc, pending, stream, failures>>

MainNext ==
    \/ \E n \in BookNames : SelectBook(n)
    \/ GoBack
    \/ \E c \in MainContacts, x \in BOOLEAN : CmdAdd(c, x)
    \/ \E f \in {S_a, S_b}, d \in MainNewDetails, x \in BOOLEAN : CmdEdit(f, S_x, d, x)
    \/ \E f \in {S_a, S_b}, x \in BOOLEAN : CmdDelete(f, S_x, x)
    \/ \E x \in BOOLEAN : CmdSortByName(x)
    \/ \E x \in BOOLEAN : CmdSortByCity(x)
    \/ \E x \in BOOLEAN : CmdSortAllByName(x)
    \/ \E x \in BOOLEAN : CmdSortAllByCity(x)
    \/ Restart

\* the program, command after command, from a first start without a file
SpecMain == MainInit /\ [][MainNext]_vars

\* the file save_all_books writes for a registry
FileFor(books) == FileOf(Join(save_all_books(books).writes))

\* the last command changed a book
Mutated ==
    \/ op.name \in {"add_contact", "sort_contacts_by_name", "sort_contacts_by_city",
                    "sort_all_by_name", "sort_all_by_city"}
    \/ op.name \in {"edit_contact", "delete_contact"} /\ op.result

\* C2: a registry written by save_all_books and read back the way the start
\* of main reads it is the same registry: the same books in the same order,
\* each with the same contacts, fields and order
C2_RoundTrip ==
    [][(op'.name = "restart" /\ file = FileFor(address_books))
          => address_books' = address_books]_vars

\* C4: when a command that changes a book has returned to its menu and its
\* save did not fail, the file is what save_all_books writes for the registry
\* as it is now in memory
C4_SavedAfterMutation ==
    (pc \in {"main", "book"} /\ Mutated /\ op.save # "failed")
        => file = FileFor(address_books)

\* a delete in one of two books that both hold a contact, saved
C4_Witness ==
    /\ pc = "book"
    /\ op.name = "delete_contact" /\ op.result /\ op.save = "ok"
    /\ Len(address_books) = 2
    /\ \A i \in 1..2 : address_books[i].contacts # <<>>

---------------------------------------------------------------------------
(* save_all_books one write at a time, and what a reader of the file finds *)

\* the file an earlier run has left: one book with one contact
EarlierFile ==
    FileFor(<< [name |-> N_Friends,
                contacts |-> << ContactPerson(S_a, S_x, S_addr, S_LA, S_NY,
                                              S_zip, S_phone, S_mail) >>] >>)

\* the program is started on that file
SaveInit ==
    /\ file = EarlierFile
    /\ address_books = LoadAddressBooks(file)
    /\ selected = 0
    /\ pc = "main"
    /\ pending = <<>>
    /\ stream = NoStream
    /\ failures = 0
    /\ op = [name |-> "start", save |-> "none"]

\* how long the disk lets the file of a save become: any length, no
\* character at all, or 50 characters
DiskLimits == {NoLimit, Limit(0), Limit(50)}

\* the file object of the save that is open, with the file for its disk
Opened ==
    [text |-> stream.text, binary |-> stream.binary, disk |-> file.text,
     limit |-> stream.limit, ok |-> TRUE]

\* what of a file object is kept in stream
Held(w) == [text |-> w.text, binary |-> w.binary, limit |-> w.limit]

\* book menu 1, for one contact, up to the open() of save_all_books:
\* open(CONTACTS_FILE, 'w') leaves the file empty, or raises and leaves it
BeginAdd(contact, open_fails, limit) ==
    /\ pc = "book"
    /\ Len(Book) < MaxContacts
    /\ open_fails => limit = NoLimit
    /\ (open_fails \/ limit.on) => failures < MaxFailures
    /\ LET r == add_contact(Book, contact)
           w == save_all_books(SetBook(r.contacts))
       IN  /\ address_books' = SetBook(r.contacts)
           /\ op' = [name |-> "add_contact", contact |-> contact, result |-> r.result,
                     save |-> IF open_fails THEN "failed" ELSE "open",
                     ok |-> w.ok, return |-> pc,
                     old |-> file, new |-> FileOf(Join(w.writes))]
           /\ pending' = IF open_fails THEN <<>> ELSE w.writes
    /\ file' = IF open_fails THEN file ELSE FileOf(FileOpen(limit).disk)
    /\ stream' = IF open_fails THEN NoStream ELSE Held(FileOpen(limit))
    /\ pc' = IF open_fails THEN pc ELSE "saving"
    /\ failures' = failures + (IF open_fails THEN 1 ELSE 0)
    /\ UNCHANGED selected

\* book menu 4, up to the open() of save_all_books, which is called only when
\* delete_contact returned True
BeginDelete(first_name, last_name, open_fails, limit) ==
    /\ pc = "book"
    /\ open_fails => limit = NoLimit
    /\ (open_fails \/ limit.on) => failures < MaxFailures
    /\ LET r == delete_contact(Book, first_name, last_name)
           w == save_all_books(SetBook(r.contacts))
           opens == r.result /\ ~open_fails
       IN  /\ ~r.result => (~open_fails /\ limit = NoLimit)
           /\ address_books' = SetBook(r.contacts)
           /\ op' = [name |-> "delete_contact", first_name |-> first_name,
                     last_name |-> last_name, result |-> r.result,
                     save |-> IF ~r.result THEN "none"
                              ELSE IF open_fails THEN "failed" ELSE "open",
                     ok |-> w.ok, return |-> pc,
                     old |-> file, new |-> FileOf(Join(w.writes))]
           /\ pending' = IF opens THEN w.writes ELSE <<>>
           /\ file' = IF opens THEN FileOf(FileOpen(limit).disk) ELSE file
           /\ stream' = IF opens THEN Held(FileOpen(limit)) ELSE NoStream
           /\ pc' = IF opens THEN "saving" ELSE pc
           /\ failures' = failures + (IF r.result /\ open_fails THEN 1 ELSE 0)
    /\ UNCHANGED selected

\* one file.write(...) of save_all_books.  If it raises (the disk takes no
\* more), the with statement closes the file, the except clause reports and
\* main goes on.
Write ==
    /\ pc = "saving"
    /\ pending # <<>>
    /\ LET w == FileWrite(Opened, Head(pending))
       IN  /\ file' = FileOf(w.disk)
           /\ stream' = IF w.ok THEN Held(w) ELSE NoStream
           /\ pending' = IF w.ok THEN Tail(pending) ELSE <<>>
           /\ pc' = IF w.ok THEN pc ELSE op.return
           /\ failures' = failures + (IF w.ok THEN 0 ELSE 1)
           /\ op' = IF w.ok THEN op ELSE [op EXCEPT !.save = "failed"]
    /\ UNCHANGED <<address_books, selected>>

\* the writes are through, or a contact lacked a field: the with statement
\* closes the file, which sends what the file object holds to the disk;
\* save_all_books returns, or its except clause reports
EndSave ==
    /\ pc = "saving"
    /\ pending = <<>>
    /\ LET w == FileClose(Opened)
       IN  /\ file' = FileOf(w.disk)
           /\ op' = [op EXCEPT !.save = IF op.ok /\ w.ok THEN "ok" ELSE "failed"]
           /\ failures' = failures + (IF op.ok /\ w.ok THEN 0 ELSE 1)
    /\ pc' = op.return
    /\ stream' = NoStream
    /\ UNCHANGED <<address_books, selected, pending>>

\* KeyboardInterrupt during a save: the with statement closes the file, no
\* except clause of save_all_books or of main takes it, the program ends
Interrupt ==
    /\ pc = "saving"
    /\ file' = FileOf(FileClose(Opened).disk)
    /\ pc' = "crashed"
    /\ pending' = <<>>
    /\ stream' = NoStream
    /\ UNCHANGED <<address_books, selected, failures, op>>

\* The process is killed: what the file object held is lost, the file keeps
\* what had reached the disk.
Crash ==
    /\ pc \in {"main", "book", "saving"}
    /\ pc' = "crashed"
    /\ pending' = <<>>
    /\ stream' = NoStream
    /\ UNCHANGED <<address_books, file, selected, failures, op>>

SaveNext ==
    \/ \E n \in BookNames : SelectBook(n)
    \/ GoBack
    \/ \E c \in MainContacts, x \in BOOLEAN, l \in DiskLimits : BeginAdd(c, x, l)
    \/ \E f \in {S_a, S_b}, x \in BOOLEAN, l \in DiskLimits : BeginDelete(f, S_x, x, l)
    \/ Write
    \/ EndSave
    \/ Interrupt
    \/ Crash

\* the program with its saves taken write by write, and ended at any point
SpecSave == SaveInit /\ [][SaveNext]_vars

\* C3: a reader of the file finds, at every moment, the whole of what the
\* last save found there or the whole of what it was to write: never an empty
\* or half-written file, in the middle of a save, after a crash or after a
\* save that failed; and a save that failed has left what it found
C3_AtomicSave ==
    (op.name \in {"add_contact", "delete_contact"} /\ op.save # "none")
        => /\ file \in {op.old, op.new}
           /\ op.save = "failed" => file = op.old

=============================================================================
